---------------------------- MODULE Spec2Model ----------------------------
(***************************************************************************)
(* Two straight-line driver scripts:                                       *)
(*   Pipeline B  ch03-feature_extraction/train_model.py       (main)       *)
(*   Pipeline A  ch02_data_augmentation/minivggnet_flowers17.py (main)     *)
(* Each statement of a script that changes state is one action; an         *)
(* exception raised by a statement ends the run (there is no try/except/   *)
(* finally in either script).                                              *)
(*                                                                         *)
(* Conventions: Python sequences are 0-based, TLA+ sequences 1-based, so   *)
(* Python index k is TLA+ index k+1 and the slice s[a:b] is                *)
(* SubSeq(s, a+1, b).  The candidate values of C are kept in tenths        *)
(* (0.1 is 1, 1.0 is 10, ...) because the model has integers only.         *)
(***************************************************************************)
EXTENDS Integers, Sequences, FiniteSets, TLC

\* ------------------------------------------------------------------ bounds
MaxRows == 5         \* rows of the feature store (Pipeline B)
MaxScore == 1        \* mean cross-validated scores are drawn from 0..MaxScore
MaxJobs == 1         \* --jobs values are drawn from 1..MaxJobs and -1
MaxImages == 5       \* images under the dataset root (Pipeline A)

\* ------------------------------------------------------- program constants
DefaultJobs == -1    \* train_model.py:42  default=-1
CV == 3              \* train_model.py:56  cv=3
SplitNum == 75       \* train_model.py:50  0.75 as 75/100
SplitDen == 100
TestNum == 25        \* minivggnet_flowers17.py:58  test_size=0.25 as 25/100
TestDen == 100
SplitSeed == 42      \* minivggnet_flowers17.py:59  random_state=42

VARIABLES
    \* ---- Pipeline B
    fs,        \* the file system: path -> content
    fs0,       \* the file system as it was when the run started
    argv,      \* the command line of the run
    pcB,       \* the statement Pipeline B is at
    args,      \* vars(args.parse_args())
    db,        \* the h5py.File handle: "none", "open", "closed"
    i,         \* the split index
    model,     \* the GridSearchCV object
    preds,     \* model.predict(db["features"][i:])
    report,    \* the arguments classification_report was called with
    f,         \* the output file handle: "none", "open", "closed"
    buf,       \* pickle.dumps(model.best_estimator_), before it is written
    calls,     \* the calls the run has made so far, in order
    \* ---- Pipeline A
    pcA,          \* the statement Pipeline A is at
    image_paths,  \* list(paths.list_images(args["dataset"]))
    class_names,  \* the class-name list
    labels,       \* the labels the loader returns, one per image
    rng,          \* seed -> the permutation RandomState(seed) yields (<<>>: not drawn yet)
    train_x,      \* the training samples (indices into image_paths)
    test_x,       \* the evaluation samples (indices into image_paths)
    train_y,      \* the training labels, then their encoding
    test_y,       \* the evaluation labels, then their encoding
    net,          \* the network MiniVGGNet.build returned
    reportA,      \* the arguments classification_report was called with
    run,          \* how many times the script has been started on this dataset
    prev          \* the split of the previous run on this dataset

varsA == <<pcA, image_paths, class_names, labels, rng, train_x, test_x,
           train_y, test_y, net, reportA, run, prev>>
varsB == <<fs, fs0, argv, pcB, args, db, i, model, preds, report, f, buf, calls>>
vars == <<varsA, varsB>>

\* --------------------------------------------------------------- helpers
Range(s) == {s[k] : k \in DOMAIN s}

\* int(x) of Python for the rational x = num/den (den > 0): truncation
\* toward zero.
IntTrunc(num, den) ==
    IF num >= 0 THEN num \div den ELSE -((-num) \div den)

\* ------------------------------------------------------ the file system
NoModel == [kind |-> "none"]
Absent == [kind |-> "absent"]
OldFile == [kind |-> "bytes", data |-> "old"]
EmptyFile == [kind |-> "bytes", data |-> "empty"]
OutPath == "animals.cpickle"
DbPath == "features.hdf5"
Paths == {DbPath, OutPath}

\* A feature store with n rows: row k has the feature vector k and the
\* label k % 2; features and labels have the same length.
StoreOf(n) ==
    [kind |-> "hdf5",
     features |-> [k \in 1..n |-> k],
     labels |-> [k \in 1..n |-> k % 2],
     label_names |-> <<"c0", "c1">>]

\* The --jobs option as given on the command line: <<>> when omitted, <<n>>
\* when given as the integer n.
JobsOpts == {<<>>, <<DefaultJobs>>} \cup {<<n>> : n \in 1..MaxJobs}

\* ------------------------------------------------------------ Pipeline B
\* argparse: --jobs is optional, type=int, default=-1.
ParsedJobs(opt) == IF opt = <<>> THEN DefaultJobs ELSE opt[1]

ParseArgs ==
    /\ pcB = "start"
    /\ args' = [db |-> argv.db, model |-> argv.model, jobs |-> ParsedJobs(argv.jobs)]
    /\ pcB' = "parsed"
    /\ UNCHANGED <<fs0, fs, argv, db, i, model, preds, f, buf, calls, report>>
    /\ UNCHANGED varsA

\* db = h5py.File(args["db"], "r"): fails unless the path holds a store.
OpenDb ==
    /\ pcB = "parsed"
    /\ IF fs[args.db].kind = "hdf5"
       THEN /\ db' = "open"
            /\ pcB' = "opened"
            /\ calls' = Append(calls, "h5py.File")
       ELSE /\ pcB' = "failed"
            /\ UNCHANGED <<db, calls>>
    /\ UNCHANGED <<fs0, fs, argv, args, i, model, preds, f, buf, report>>
    /\ UNCHANGED varsA

\* Mutant of SplitIndex: round(...) in place of int(...).
SplitIndexRounded(n) == (2 * n * SplitNum + SplitDen) \div (2 * SplitDen)

\* i = int(db["labels"].shape[0] * 0.75)
SplitIndex(n) == IntTrunc(n * SplitNum, SplitDen)

ComputeSplit ==
    /\ pcB = "opened"
    /\ i' = SplitIndex(Len(fs[args.db].labels))
    /\ pcB' = "split"
    /\ UNCHANGED <<fs0, fs, argv, args, db, model, preds, f, buf, calls, report>>
    /\ UNCHANGED varsA

\* params = {"C": [0.1, 1.0, 10.0, 100.0, 1000.0, 10000.0]}, in tenths.
ParamGrid == <<1, 10, 100, 1000, 10000, 100000>>

\* Mutant of SearchJobs: n_jobs is hard-wired to "all cores".
SearchJobsAll == DefaultJobs

\* The n_jobs argument of GridSearchCV(...).
SearchJobs == args.jobs

\* model = GridSearchCV(LogisticRegression(...), params, cv=3, n_jobs=args["jobs"])
BuildSearch ==
    /\ pcB = "split"
    /\ model' = [kind |-> "GridSearchCV", param_grid |-> ParamGrid, cv |-> CV,
                 n_jobs |-> SearchJobs, state |-> "new",
                 fit_X |-> <<>>, fit_y |-> <<>>, scores |-> <<>>,
                 best_index |-> 0, best_params |-> 0, best_estimator |-> NoModel]
    /\ pcB' = "built"
    /\ UNCHANGED <<fs0, fs, argv, args, db, i, preds, f, buf, calls, report>>
    /\ UNCHANGED varsA

\* The slices the code takes of a stored collection.
TrainSlice(s) == SubSeq(s, 1, i)          \* s[:i]
EvalSlice(s) == SubSeq(s, i + 1, Len(s))  \* s[i:]

\* model.fit(db["features"][:i], db["labels"][:i]) is entered: the two slices
\* are read from the store and the search starts.
FitStart ==
    /\ pcB = "built"
    /\ model' = [model EXCEPT !.state = "fitting",
                              !.fit_X = TrainSlice(fs[args.db].features),
                              !.fit_y = TrainSlice(fs[args.db].labels)]
    /\ calls' = Append(calls, "fit")
    /\ pcB' = "fitting"
    /\ UNCHANGED <<fs0, fs, argv, args, db, i, preds, f, buf, report>>
    /\ UNCHANGED varsA

\* GridSearchCV ranks the candidates by mean test score (rank 1 is best,
\* ties share the smaller rank) and takes the argmin of the ranks, which is
\* the first index of the minimum.
RankOf(scores, k) == 1 + Cardinality({j \in DOMAIN scores : scores[j] > scores[k]})
ArgMinFirst(r) ==
    CHOOSE k \in DOMAIN r :
        /\ \A j \in DOMAIN r : r[k] <= r[j]
        /\ \A j \in DOMAIN r : r[j] = r[k] => k <= j
\* Mutant of BestIndex: the last of the best candidates wins a tie.
BestIndexLast(scores) ==
    CHOOSE k \in DOMAIN scores :
        /\ \A j \in DOMAIN scores : scores[j] <= scores[k]
        /\ \A j \in DOMAIN scores : scores[j] = scores[k] => j <= k

BestIndex(scores) == ArgMinFirst([k \in DOMAIN scores |-> RankOf(scores, k)])

\* refit=True: best_estimator_ is a clone fitted with the chosen C on all
\* the data fit() was given.
Refit(c, X, y) == [kind |-> "LogisticRegression", C |-> c, X |-> X, y |-> y]

\* The search returns: one mean cross-validated score per candidate, the
\* best index, the best parameters and the refitted estimator.  cv=3 needs
\* at least 3 training rows.
FitEnd ==
    /\ pcB = "fitting"
    /\ Len(model.fit_X) >= model.cv
    /\ \E scores \in [DOMAIN model.param_grid -> 0..MaxScore] :
          LET b == BestIndex(scores) IN
          model' = [model EXCEPT !.state = "fitted",
                                 !.scores = scores,
                                 !.best_index = b,
                                 !.best_params = model.param_grid[b],
                                 !.best_estimator =
                                     Refit(model.param_grid[b], model.fit_X, model.fit_y)]
    /\ calls' = Append(calls, "fit.return")
    /\ pcB' = "fitted"
    /\ UNCHANGED <<fs0, fs, argv, args, db, i, preds, f, buf, report>>
    /\ UNCHANGED varsA

\* The statement predict may run at: after fit() has returned.
PredictReady == pcB = "fitted"

\* preds = model.predict(db["features"][i:]): GridSearchCV delegates to
\* best_estimator_.
Predict ==
    /\ PredictReady
    /\ preds' = [kind |-> "preds", by |-> model.best_estimator,
                 X |-> EvalSlice(fs[args.db].features)]
    /\ calls' = Append(calls, "predict")
    /\ pcB' = "predicted"
    /\ UNCHANGED <<fs0, fs, argv, args, db, i, model, f, buf, report>>
    /\ UNCHANGED varsA

\* print(classification_report(db["labels"][i:], preds, target_names=...))
Report ==
    /\ pcB = "predicted"
    /\ report' = [kind |-> "report", y_true |-> EvalSlice(fs[args.db].labels),
                  y_pred |-> preds, target_names |-> fs[args.db].label_names]
    /\ calls' = Append(calls, "classification_report")
    /\ pcB' = "reported"
    /\ UNCHANGED <<fs0, fs, argv, args, db, i, model, preds, f, buf>>
    /\ UNCHANGED varsA

\* Mutant of OutTarget: the output is opened at the --db path.
OutTargetDb == args.db

\* The path the serialized model goes to.
OutTarget == args.model

\* f = open(args["model"], "wb"): creates the file, or truncates it.
OpenOut ==
    /\ pcB = "reported"
    /\ fs' = [fs EXCEPT ![OutTarget] = EmptyFile]
    /\ f' = "open"
    /\ calls' = Append(calls, "open")
    /\ pcB' = "fopened"
    /\ UNCHANGED <<fs0, argv, args, db, i, model, preds, buf, report>>
    /\ UNCHANGED varsA

\* pickle.dumps(est): the serialized form of an estimator.
Pickle(est) == [kind |-> "bytes", data |-> <<"pickle", est>>]

\* The argument of f.write(...) is evaluated: pickle.dumps(model.best_estimator_)
Dumps ==
    /\ pcB = "fopened"
    /\ buf' = Pickle(model.best_estimator)
    /\ calls' = Append(calls, "pickle.dumps")
    /\ pcB' = "dumped"
    /\ UNCHANGED <<fs0, fs, argv, args, db, i, model, preds, f, report>>
    /\ UNCHANGED varsA

\* f.write(...)
Write ==
    /\ pcB = "dumped"
    /\ fs' = [fs EXCEPT ![OutTarget] = buf]
    /\ calls' = Append(calls, "write")
    /\ pcB' = "written"
    /\ UNCHANGED <<fs0, argv, args, db, i, model, preds, f, buf, report>>
    /\ UNCHANGED varsA

\* f.write(...) raises part-way (disk full, I/O error): some bytes are out.
WriteFail ==
    /\ pcB = "dumped"
    /\ fs' = [fs EXCEPT ![OutTarget] = [kind |-> "bytes", data |-> "partial"]]
    /\ calls' = Append(calls, "write")
    /\ pcB' = "failed"
    /\ UNCHANGED <<fs0, argv, args, db, i, model, preds, f, buf, report>>
    /\ UNCHANGED varsA

\* f.close()
CloseOut ==
    /\ pcB = "written"
    /\ f' = "closed"
    /\ calls' = Append(calls, "f.close")
    /\ pcB' = "fclosed"
    /\ UNCHANGED <<fs0, fs, argv, args, db, i, model, preds, buf, report>>
    /\ UNCHANGED varsA

\* db.close(), the last statement of main.
CloseDb ==
    /\ pcB = "fclosed"
    /\ db' = "closed"
    /\ calls' = Append(calls, "db.close")
    /\ pcB' = "done"
    /\ UNCHANGED <<fs0, fs, argv, args, i, model, preds, f, buf, report>>
    /\ UNCHANGED varsA

\* The statements after the store is opened; each may raise, and main has
\* no handler: the exception ends the run where it is.
RaisingB == {"opened", "split", "built", "fitting", "fitted", "predicted",
             "reported", "fopened", "dumped", "written", "fclosed"}

Raise ==
    /\ pcB \in RaisingB
    /\ pcB' = "failed"
    /\ UNCHANGED <<fs0, fs, argv, args, db, i, model, preds, f, buf, calls, report>>
    /\ UNCHANGED varsA

\* ------------------------------------------------------------ Pipeline A
\* A name is a sequence of character codes, so that names have the string
\* order of Python: "a" < "ab" < "b" is <<1>> < <<1, 2>> < <<2>>.
DirNames == {<<1>>, <<1, 2>>, <<2>>}
Root == <<0>>
FileName(k) == <<9, k>>

\* a < b for two strings (code point by code point, a proper prefix first).
StrLess(a, b) ==
    \E k \in 1..(Len(a) + 1) :
        /\ \A j \in 1..(k - 1) : j <= Len(b) /\ a[j] = b[j]
        /\ IF k > Len(a) THEN Len(b) >= k
           ELSE k <= Len(b) /\ a[k] < b[k]

\* np.unique(xs): the distinct elements of xs, sorted ascending.
RECURSIVE SortedSeq(_)
SortedSeq(S) ==
    IF S = {} THEN <<>>
    ELSE LET m == CHOOSE x \in S : \A y \in S \ {x} : StrLess(x, y)
         IN <<m>> \o SortedSeq(S \ {m})
Unique(xs) == SortedSeq(Range(xs))

\* pt.split(os.path.sep)[-2]: the second-to-last component of a path.
ParentDir(pt) == pt[Len(pt) - 1]

\* Mutant of ClassNames: the np.unique of line 42 is left out.
ClassNamesRaw(ps) == [k \in DOMAIN ps |-> ParentDir(ps[k])]

\* class_names = [pt.split(os.path.sep)[-2] for pt in image_paths]
\* class_names = [str(x) for x in np.unique(class_names)]
ClassNames(ps) == Unique([k \in DOMAIN ps |-> ParentDir(ps[k])])

\* image_paths = list(paths.list_images(args["dataset"])), then the two
\* statements that derive class_names from it.
ListImages ==
    /\ pcA = "start"
    /\ class_names' = ClassNames(image_paths)
    /\ pcA' = "listed"
    /\ UNCHANGED <<image_paths, labels, rng, train_x, test_x, train_y, test_y,
                   net, reportA, run, prev>>
    /\ UNCHANGED varsB

\* SimpleDatasetLoader.load: the label of an image is the name of the
\* directory it is in.
LoaderLabel(pt) == pt[Len(pt) - 1]

\* (data, labels) = simple_dataset_loader.load(image_paths, verbose=500)
\* Sample k of data is image k; it is identified by its index.
Load ==
    /\ pcA = "listed"
    /\ labels' = [k \in DOMAIN image_paths |-> LoaderLabel(image_paths[k])]
    /\ pcA' = "loaded"
    /\ UNCHANGED <<image_paths, class_names, rng, train_x, test_x, train_y, test_y,
                   net, reportA, run, prev>>
    /\ UNCHANGED varsB

\* train_test_split(test_size=0.25): n_test = ceil(test_size * n_samples),
\* n_train = n_samples - n_test.
CeilDiv(num, den) == (num + den - 1) \div den
\* Mutant of NTest: the evaluation size is rounded down.
NTestFloor(n) == (n * TestNum) \div TestDen

NTest(n) == CeilDiv(n * TestNum, TestDen)
NTrain(n) == n - NTest(n)

\* The orderings of the elements of S.
RECURSIVE Orderings(_)
Orderings(S) ==
    IF S = {} THEN {<<>>}
    ELSE UNION {{<<x>> \o p : p \in Orderings(S \ {x})} : x \in S}

\* RandomState(seed).permutation(n): some permutation of the n samples, and
\* the same one whenever the same seed is used again.
Permutation(seed, n) ==
    IF rng[seed] # <<>> THEN {rng[seed]} ELSE Orderings(1..n)

\* The seed the split draws its permutation with.
SeedOf(r) == SplitSeed

\* train_test_split(data, labels, test_size=0.25, random_state=42): a new
\* RandomState(42) yields a permutation of the samples; its first n_test
\* entries are the evaluation samples, the next n_train the training ones.
\* It raises when the training set would be empty.
Split ==
    /\ pcA = "loaded"
    /\ LET n == Len(labels) IN
       IF NTrain(n) <= 0
       THEN /\ pcA' = "failed"
            /\ UNCHANGED <<rng, train_x, test_x, train_y, test_y>>
       ELSE \E p \in Permutation(SeedOf(run), n) :
              /\ rng' = [rng EXCEPT ![SeedOf(run)] = p]
              /\ test_x' = SubSeq(p, 1, NTest(n))
              /\ train_x' = SubSeq(p, NTest(n) + 1, NTest(n) + NTrain(n))
              /\ test_y' = [k \in 1..NTest(n) |-> labels[p[k]]]
              /\ train_y' = [k \in 1..NTrain(n) |-> labels[p[NTest(n) + k]]]
              /\ pcA' = "split"
    /\ UNCHANGED <<image_paths, class_names, labels, net, reportA, run, prev>>
    /\ UNCHANGED varsB

\* LabelBinarizer().fit_transform(y): classes_ is the sorted distinct labels
\* of y itself.  One class gives a single column of zeros, two classes a
\* single 0/1 column (1 for the second class), three or more one column per
\* class.
Binarize(y) ==
    LET classes == Unique(y)
        L == Len(classes)
    IN  [k \in DOMAIN y |->
            IF L = 1 THEN <<0>>
            ELSE IF L = 2 THEN <<IF y[k] = classes[2] THEN 1 ELSE 0>>
            ELSE [c \in 1..L |-> IF y[k] = classes[c] THEN 1 ELSE 0]]

\* train_y = LabelBinarizer().fit_transform(train_y)
EncodeTrain ==
    /\ pcA = "split"
    /\ train_y' = Binarize(train_y)
    /\ pcA' = "encoded_train"
    /\ UNCHANGED <<image_paths, class_names, labels, rng, train_x, test_x, test_y,
                   net, reportA, run, prev>>
    /\ UNCHANGED varsB

\* test_y = LabelBinarizer().fit_transform(test_y)
EncodeTest ==
    /\ pcA = "encoded_train"
    /\ test_y' = Binarize(test_y)
    /\ pcA' = "encoded"
    /\ UNCHANGED <<image_paths, class_names, labels, rng, train_x, test_x, train_y,
                   net, reportA, run, prev>>
    /\ UNCHANGED varsB

\* model = MiniVGGNet.build(width=64, height=64, depth=3, classes=len(class_names))
\* model.compile(...)
Build ==
    /\ pcA = "encoded"
    /\ net' = [kind |-> "MiniVGGNet", classes |-> Len(class_names)]
    /\ pcA' = "compiled"
    /\ UNCHANGED <<image_paths, class_names, labels, rng, train_x, test_x, train_y,
                   test_y, reportA, run, prev>>
    /\ UNCHANGED varsB

\* The number of columns of an encoding (all rows have the same length).
Width(m) == Len(m[1])

\* model.fit(train_x, train_y, validation_data=(test_x, test_y), ...): the
\* targets must have as many columns as the network has outputs.
Train ==
    /\ pcA = "compiled"
    /\ pcA' = IF Width(train_y) = net.classes /\ Width(test_y) = net.classes
              THEN "trained" ELSE "failed"
    /\ UNCHANGED <<image_paths, class_names, labels, rng, train_x, test_x, train_y,
                   test_y, net, reportA, run, prev>>
    /\ UNCHANGED varsB

\* m.argmax(): the first index of the largest entry, 0-based.
ArgMax(row) ==
    (CHOOSE k \in DOMAIN row :
        /\ \A j \in DOMAIN row : row[j] <= row[k]
        /\ \A j \in DOMAIN row : row[j] = row[k] => k <= j) - 1

\* classification_report(test_y.argmax(axis=1), predictions.argmax(axis=1),
\*                       target_names=class_names)
\* The predictions are the network's output and are not modelled.
Evaluate ==
    /\ pcA = "trained"
    /\ reportA' = [kind |-> "report",
                   y_true |-> [k \in DOMAIN test_y |-> ArgMax(test_y[k])],
                   target_names |-> class_names]
    /\ pcA' = "evaluated"
    /\ UNCHANGED <<image_paths, class_names, labels, rng, train_x, test_x, train_y,
                   test_y, net, run, prev>>
    /\ UNCHANGED varsB

\* plt.style.use ... plt.show(): the plot goes to the screen, not to a file.
Plot ==
    /\ pcA = "evaluated"
    /\ pcA' = "done"
    /\ UNCHANGED <<image_paths, class_names, labels, rng, train_x, test_x, train_y,
                   test_y, net, reportA, run, prev>>
    /\ UNCHANGED varsB

\* The script is started again on the same dataset directory.
Rerun ==
    /\ pcA \in {"done", "failed"}
    /\ run = 1
    /\ run' = 2
    /\ prev' = [train |-> train_x, test |-> test_x]
    /\ pcA' = "start"
    /\ class_names' = <<>>
    /\ labels' = <<>>
    /\ train_x' = <<>>
    /\ test_x' = <<>>
    /\ train_y' = <<>>
    /\ test_y' = <<>>
    /\ net' = [kind |-> "none"]
    /\ reportA' = [kind |-> "none"]
    /\ UNCHANGED <<image_paths, rng>>
    /\ UNCHANGED varsB

\* paths.list_images walks the tree directory by directory, so the images of
\* one directory are adjacent in the list.
Grouped(ls) ==
    \A a, b, c \in DOMAIN ls : (a < b /\ b < c /\ ls[a] = ls[c]) => ls[b] = ls[a]

IdleA ==
    /\ pcA = "off"
    /\ image_paths = <<>>
    /\ class_names = <<>>
    /\ labels = <<>>
    /\ rng = [s \in {SplitSeed} |-> <<>>]
    /\ train_x = <<>>
    /\ test_x = <<>>
    /\ train_y = <<>>
    /\ test_y = <<>>
    /\ net = [kind |-> "none"]
    /\ reportA = [kind |-> "none"]
    /\ run = 1
    /\ prev = [train |-> <<>>, test |-> <<>>]

InitA ==
    /\ \E n \in 0..MaxImages : \E ls \in [1..n -> DirNames] :
          /\ Grouped(ls)
          /\ image_paths = [k \in 1..n |-> <<Root, ls[k], FileName(k)>>]
    /\ pcA = "start"
    /\ class_names = <<>>
    /\ labels = <<>>
    /\ rng = [s \in {SplitSeed} |-> <<>>]
    /\ train_x = <<>>
    /\ test_x = <<>>
    /\ train_y = <<>>
    /\ test_y = <<>>
    /\ net = [kind |-> "none"]
    /\ reportA = [kind |-> "none"]
    /\ run = 1
    /\ prev = [train |-> <<>>, test |-> <<>>]

NextA ==
    \/ ListImages
    \/ Load
    \/ Split
    \/ EncodeTrain
    \/ EncodeTest
    \/ Build
    \/ Train
    \/ Evaluate
    \/ Plot
    \/ Rerun

IdleB ==
    /\ fs = [p \in Paths |-> IF p = DbPath THEN StoreOf(0) ELSE Absent]
    /\ fs0 = fs
    /\ argv = [db |-> "", model |-> "", jobs |-> <<>>]
    /\ pcB = "off"
    /\ args = [db |-> "", model |-> "", jobs |-> 0]
    /\ db = "none"
    /\ i = 0
    /\ model = NoModel
    /\ preds = [kind |-> "none"]
    /\ report = [kind |-> "none"]
    /\ f = "none"
    /\ buf = Absent
    /\ calls = <<>>

InitB ==
    /\ \E n \in 0..MaxRows, old \in {Absent, OldFile} :
          fs = [p \in Paths |-> IF p = DbPath THEN StoreOf(n) ELSE old]
    /\ argv \in [db : Paths, model : Paths, jobs : JobsOpts]
    /\ pcB = "start"
    /\ args = [db |-> "", model |-> "", jobs |-> 0]
    /\ db = "none"
    /\ i = 0
    /\ model = NoModel
    /\ preds = [kind |-> "none"]
    /\ report = [kind |-> "none"]
    /\ fs0 = fs
    /\ f = "none"
    /\ buf = Absent
    /\ calls = <<>>

NextB ==
    \/ ParseArgs
    \/ OpenDb
    \/ ComputeSplit
    \/ BuildSearch
    \/ FitStart
    \/ FitEnd
    \/ Predict
    \/ Report
    \/ OpenOut
    \/ Dumps
    \/ Write
    \/ WriteFail
    \/ CloseOut
    \/ CloseDb
    \/ Raise

\* One run of the program is a run of one of the two scripts.
Init == (InitA /\ IdleB) \/ (InitB /\ IdleA)
Next == NextA \/ NextB
Spec == Init /\ [][Next]_vars
\* ---------------------------------------------------------------- claims
\* What the claims are stated with.
IsPrefix(s, t) == Len(s) <= Len(t) /\ SubSeq(t, 1, Len(s)) = s
NoDuplicates(s) == \A a, b \in DOMAIN s : s[a] = s[b] => a = b
StoreAtStart == fs0[args.db]
BSearchEntered == pcB # "off" /\ model.kind = "GridSearchCV" /\ model.state # "new"
BFitted == pcB # "off" /\ model.kind = "GridSearchCV" /\ model.state = "fitted"
ASplitDone == pcA # "off" /\ train_x # <<>>
StageOrder == <<"h5py.File", "fit", "fit.return", "predict", "classification_report",
                "open", "pickle.dumps", "write", "f.close", "db.close">>
LabelSet(xs) == {labels[xs[k]] : k \in DOMAIN xs}

\* C1: once the feature store has been opened, every run that has ended,
\* completed or failed, has closed it.
C1_StoreClosedOnEveryExit ==
    (pcB \in {"done", "failed"} /\ db # "none") => db = "closed"

\* C2: the split index is floor(0.75*N); the search is fitted on exactly the
\* rows [0, idx) and evaluated on exactly the rows [idx, N), features and
\* labels alike; the two parts are disjoint and together are all rows in
\* stored order.
C2_PositionalSplit ==
    BSearchEntered =>
        LET st == StoreAtStart
            n == Len(st.labels)
            idx == (3 * n) \div 4
        IN  /\ i = idx
            /\ model.fit_X = [k \in 1..idx |-> st.features[k]]
            /\ model.fit_y = [k \in 1..idx |-> st.labels[k]]
            /\ preds.kind = "preds" =>
                  /\ preds.X = [k \in 1..(n - idx) |-> st.features[idx + k]]
                  /\ Range(model.fit_X) \cap Range(preds.X) = {}
                  /\ model.fit_X \o preds.X = st.features
            /\ report.kind = "report" =>
                  /\ report.y_true = [k \in 1..(n - idx) |-> st.labels[idx + k]]
                  /\ model.fit_y \o report.y_true = st.labels

C2_Witness ==
    /\ pcB = "reported"
    /\ Len(StoreAtStart.labels) = 5
    /\ i = 3
    /\ Len(model.fit_X) = 3
    /\ Len(preds.X) = 2
    /\ Len(report.y_true) = 2

\* C3 as stated: the split gives disjoint subsets whose sizes sum to N, the
\* evaluation size is 0.25*N rounded to a nearest integer, and a second run
\* gives the same partition.
C3_SplitRounded ==
    ASplitDone =>
        LET n == Len(image_paths)
            d == 4 * Len(test_x) - n
        IN  /\ Len(train_x) + Len(test_x) = n
            /\ Range(train_x) \cap Range(test_x) = {}
            /\ -2 <= d /\ d <= 2
            /\ run = 2 => (train_x = prev.train /\ test_x = prev.test)

\* C3 as amended: the split gives disjoint subsets whose sizes sum to N and
\* which together are all samples, the evaluation size is ceil(0.25*N) (the
\* least k with 4k >= N), and a second run gives the same partition.
C3_SplitCeil ==
    ASplitDone =>
        LET n == Len(image_paths) IN
            /\ Len(train_x) + Len(test_x) = n
            /\ Range(train_x) \cap Range(test_x) = {}
            /\ Range(train_x) \cup Range(test_x) = 1..n
            /\ NoDuplicates(train_x) /\ NoDuplicates(test_x)
            /\ 4 * Len(test_x) >= n /\ 4 * (Len(test_x) - 1) < n
            /\ train_y = <<>> \/ Len(train_y) = Len(train_x)
            /\ run = 2 => (train_x = prev.train /\ test_x = prev.test)

C3_Witness ==
    /\ run = 2
    /\ pcA = "split"
    /\ Len(image_paths) = 5
    /\ Len(test_x) = 2
    /\ Len(train_x) = 3
    /\ prev.test = test_x

\* C4: when the training and the evaluation subset hold the same labels and
\* there are at least two classes, the arg-max column of every encoded label,
\* looked up in class_names, is the sample's original label, in both
\* encodings.
C4_OneHotRoundTrip ==
    (/\ pcA \in {"encoded", "compiled"}
     /\ Len(class_names) >= 2
     /\ LabelSet(train_x) = LabelSet(test_x))
    => /\ \A j \in DOMAIN train_y :
            class_names[ArgMax(train_y[j]) + 1] = labels[train_x[j]]
       /\ \A j \in DOMAIN test_y :
            class_names[ArgMax(test_y[j]) + 1] = labels[test_x[j]]

\* C5: a run that fails leaves the file at the --model path as it was, and
\* the calls of a run are made in the order of the stages.
C5_NoPartialResult ==
    /\ IsPrefix(calls, StageOrder)
    /\ pcB = "failed" => fs[args.model] = fs0[args.model]

\* C6: the search is over exactly the six candidates with 3 folds on the
\* training rows only; the chosen candidate has a maximal mean score and is
\* the earliest such; the estimator that predicts and is serialized is the
\* one refitted with it.
C6_GridSearch ==
    BFitted =>
        LET b == model.best_index
            chosen == model.param_grid[b]
        IN  /\ model.cv = 3
            /\ Len(model.param_grid) = 6
            /\ Range(model.param_grid) = {1, 10, 100, 1000, 10000, 100000}
            /\ model.fit_X = SubSeq(StoreAtStart.features, 1, i)
            /\ \A j \in DOMAIN model.scores : model.scores[j] <= model.scores[b]
            /\ \A j \in 1..(b - 1) : model.scores[j] < model.scores[b]
            /\ model.best_params = chosen
            /\ model.best_estimator.C = chosen
            /\ model.best_estimator.X = model.fit_X
            /\ preds.kind = "preds" => preds.by = model.best_estimator
            /\ pcB \in {"written", "fclosed", "done"} =>
                  fs[args.model] = [kind |-> "bytes",
                                    data |-> <<"pickle", model.best_estimator>>]

C6_Witness ==
    /\ pcB = "done"
    /\ model.scores[1] < model.scores[2]
    /\ model.scores[2] = model.scores[5]
    /\ model.best_index = 2
    /\ model.best_estimator.C = 10

\* C7 as stated: a completed run of Pipeline B has put the serialized best
\* estimator at the --model path, has changed no other file and has left the
\* feature store as it was; Pipeline A changes no file.
C7_OneFileWritten ==
    /\ pcB = "done" =>
          /\ fs[args.model] = Pickle(model.best_estimator)
          /\ \A p \in Paths \ {args.model} : fs[p] = fs0[p]
          /\ fs[args.db] = fs0[args.db]
    /\ pcA # "off" => fs = fs0

\* C7 as amended: as C7, the feature store being left as it was when the
\* --model path is not the path of the feature store itself.
C7_OneFileWrittenUnlessAliased ==
    /\ pcB = "done" =>
          /\ fs[args.model] = Pickle(model.best_estimator)
          /\ \A p \in Paths \ {args.model} : fs[p] = fs0[p]
          /\ args.model # args.db => fs[args.db] = fs0[args.db]
    /\ pcA # "off" => fs = fs0

C7_Witness ==
    /\ pcB = "done"
    /\ args.model # args.db
    /\ fs0[args.model] = OldFile
    /\ fs[args.model] # OldFile
    /\ fs[args.db].kind = "hdf5"

\* C8: the search gets the --jobs value, or -1 when the option is omitted;
\* prediction, report, serialization and closing the store come after the
\* search has returned, in that order.
C8_JobsAndOrder ==
    /\ (pcB # "off" /\ model.kind = "GridSearchCV") =>
          model.n_jobs = (IF argv.jobs = <<>> THEN -1 ELSE argv.jobs[1])
    /\ IsPrefix(calls, StageOrder)
    /\ \A k \in DOMAIN calls :
          calls[k] \in {"predict", "classification_report", "open", "write", "db.close"}
              => (\E j \in 1..(k - 1) : calls[j] = "fit.return")

C8_Witness ==
    /\ pcB = "done"
    /\ argv.jobs = <<1>>
    /\ model.n_jobs = 1
    /\ calls = StageOrder

\* The two halves of C9: class_names holds exactly the distinct
\* parent-directory names of the image paths, each once, in ascending string order; it is there before any
\* split or encoding and does not change for the rest of the run.
C9_ClassNamesState ==
    /\ pcA \notin {"off", "start"} =>
          /\ Range(class_names) =
                {image_paths[k][Len(image_paths[k]) - 1] : k \in DOMAIN image_paths}
          /\ NoDuplicates(class_names)
          /\ \A a, b \in DOMAIN class_names :
                a < b => StrLess(class_names[a], class_names[b])
    /\ pcA \in {"off", "start", "listed", "loaded"} =>
          (train_x = <<>> /\ train_y = <<>> /\ test_y = <<>>)
C9_ClassNamesStep ==
    (pcA # "start" /\ pcA' # "start") => class_names' = class_names
\* C9: in every state class_names is the sorted list of the distinct
\* parent-directory names, and no step of a run changes it once it is set.
C9_ClassNames == []C9_ClassNamesState /\ [][C9_ClassNamesStep]_vars

C9_Witness ==
    /\ pcA = "encoded"
    /\ class_names = << <<1>>, <<1, 2>>, <<2>> >>
    /\ image_paths[1][2] = <<2>>
    /\ Len(image_paths) = 5

\* C10: when training starts, both encodings have as many columns as the
\* network has classes, which is the number of directory names, and column k
\* of each stands for the k-th class name.
C10_EncodingWidth ==
    pcA = "compiled" =>
        /\ net.classes = Cardinality({image_paths[k][2] : k \in DOMAIN image_paths})
        /\ Width(train_y) = net.classes
        /\ Width(test_y) = net.classes
        /\ \A j \in DOMAIN train_y : \A k \in DOMAIN train_y[j] :
              train_y[j][k] = 1 <=> labels[train_x[j]] = class_names[k]
        /\ \A j \in DOMAIN test_y : \A k \in DOMAIN test_y[j] :
              test_y[j][k] = 1 <=> labels[test_x[j]] = class_names[k]
=============================================================================
